---- MODULE Spec2Model ----
(***************************************************************************)
(* mqttcmdscript: the cmdscript parser (cmdscript_parse), the program      *)
(* entry (main) and the interpreter loop (cmdscript_interpreter) with the  *)
(* MQTT callbacks.                                                         *)
(*                                                                         *)
(* Text is modelled character by character: a Python str is a sequence of  *)
(* one-character strings, so that split, upper, join, the quote test and   *)
(* int() are computed the way the code computes them.                      *)
(***************************************************************************)
EXTENDS Integers, Sequences, FiniteSets, TLC

VARIABLES
    script,               \* text of the cmdscript file (main: cmdscript)
    pc,                   \* position of the main thread
    rc,                   \* return code of main (NoRc while running)
    parses,               \* number of completed/attempted cmdscript_parse calls
    config,               \* the module-level Configuration object
    warned,               \* lines passed to logger.warning by the tokenizer
    app_exit,             \* global app_exit
    mqtt_connection_lost, \* global mqtt_connection_lost
    time_mqtt_connected,  \* global time_mqtt_connected (None or a time)
    t_wait_start,         \* global t_wait_start (None or a time)
    step,                 \* cmdscript_interpreter: local step
    now,                  \* the clock read by time(), in milliseconds
    client_state,         \* connection state held by mqtt_client
    net,                  \* state of the network thread (loop_forever)
    connects,             \* number of mqtt_client.connect calls
    subscribes,           \* the mqtt_client.subscribe calls made so far
    drops,                \* number of connection losses so far
    calls,                \* client calls issued by the last tick / callback
    ticks,                \* number of loop iterations executed
    logs,                 \* lines appended to each subscription log file
    received,             \* messages delivered to cb_mqtt_on_msg_rx so far
    published             \* the publish calls run_step_cmd has made so far

vars == <<script, pc, rc, parses, config, warned, app_exit,
          mqtt_connection_lost, time_mqtt_connected, t_wait_start, step, now,
          client_state, net, connects, subscribes, drops, calls, ticks,
          logs, received, published>>

(***************************************************************************)
(* Characters and str helpers                                              *)
(***************************************************************************)
SP == " "
LF == "\n"
CR == "\r"
QUOTE == "\""
HASH == "#"

Whitespace == {SP, LF, CR}
Digits == {"0", "1", "2", "3", "4", "5", "6", "7", "8", "9"}

LowerOf == [c \in {"A","B","C","D","E","F","G","H","I","J","K","L","M","N",
                   "O","P","Q","R","S","T","U","V","W","X","Y","Z"} |->
    CASE c = "A" -> "a" [] c = "B" -> "b" [] c = "C" -> "c" [] c = "D" -> "d"
      [] c = "E" -> "e" [] c = "F" -> "f" [] c = "G" -> "g" [] c = "H" -> "h"
      [] c = "I" -> "i" [] c = "J" -> "j" [] c = "K" -> "k" [] c = "L" -> "l"
      [] c = "M" -> "m" [] c = "N" -> "n" [] c = "O" -> "o" [] c = "P" -> "p"
      [] c = "Q" -> "q" [] c = "R" -> "r" [] c = "S" -> "s" [] c = "T" -> "t"
      [] c = "U" -> "u" [] c = "V" -> "v" [] c = "W" -> "w" [] c = "X" -> "x"
      [] c = "Y" -> "y" [] c = "Z" -> "z"]

\* str.upper() on one character
UpperChar(c) ==
    IF \E u \in DOMAIN LowerOf : LowerOf[u] = c
    THEN CHOOSE u \in DOMAIN LowerOf : LowerOf[u] = c
    ELSE c

\* str.upper()
Upper(s) == [i \in 1..Len(s) |-> UpperChar(s[i])]

\* the indexes of s, in order
Indexes(s) == [i \in 1..Len(s) |-> i]

\* str.replace("\r\n", "\n"): the CR of every CR LF pair is dropped
ReplaceCRLF(s) ==
    LET keep == SelectSeq(Indexes(s),
                          LAMBDA i : ~(s[i] = CR /\ i < Len(s) /\ s[i + 1] = LF))
    IN [k \in 1..Len(keep) |-> s[keep[k]]]

\* str.split(sep) for the one-character separators in seps: every separator
\* ends a field, empty fields are kept
SplitAt(s, seps) ==
    LET at == SelectSeq(Indexes(s), LAMBDA i : s[i] \in seps)
        n == Len(at)
        lo(k) == IF k = 1 THEN 1 ELSE at[k - 1] + 1
        hi(k) == IF k = n + 1 THEN Len(s) ELSE at[k] - 1
    IN [k \in 1..(n + 1) |-> SubSeq(s, lo(k), hi(k))]

StrSplit(s, sep) == SplitAt(s, {sep})

\* str.split() without argument: runs of whitespace separate, no empty fields
NonEmpty(w) == Len(w) > 0
SplitWs(s) == SelectSeq(SplitAt(s, Whitespace), NonEmpty)

\* sep.join(words)
RECURSIVE StrJoin(_, _)
StrJoin(sep, words) ==
    IF Len(words) = 0 THEN <<>>
    ELSE IF Len(words) = 1 THEN words[1]
    ELSE words[1] \o <<sep>> \o StrJoin(sep, Tail(words))

\* str.strip() as int() applies it
RECURSIVE LStrip(_)
LStrip(s) == IF Len(s) > 0 /\ Head(s) \in Whitespace THEN LStrip(Tail(s)) ELSE s
RECURSIVE RStrip(_)
RStrip(s) ==
    IF Len(s) > 0 /\ s[Len(s)] \in Whitespace
    THEN RStrip(SubSeq(s, 1, Len(s) - 1)) ELSE s

Unsigned(s) == IF Len(s) > 0 /\ s[1] \in {"-", "+"} THEN Tail(s) ELSE s

\* The digit groups int() accepts: digits with single underscores between them
DigitsOk(d) ==
    /\ Len(d) > 0
    /\ \A i \in 1..Len(d) : d[i] \in Digits \cup {"_"}
    /\ d[1] # "_" /\ d[Len(d)] # "_"
    /\ \A i \in 1..(Len(d) - 1) : ~(d[i] = "_" /\ d[i + 1] = "_")

DigitVal(c) ==
    CASE c = "0" -> 0 [] c = "1" -> 1 [] c = "2" -> 2 [] c = "3" -> 3
      [] c = "4" -> 4 [] c = "5" -> 5 [] c = "6" -> 6 [] c = "7" -> 7
      [] c = "8" -> 8 [] c = "9" -> 9

RECURSIVE DigitsVal(_, _)
DigitsVal(d, acc) ==
    IF Len(d) = 0 THEN acc
    ELSE IF Head(d) = "_" THEN DigitsVal(Tail(d), acc)
    ELSE DigitsVal(Tail(d), 10 * acc + DigitVal(Head(d)))

\* int(s, 10) succeeds on the str s
IntParses(s) == DigitsOk(Unsigned(RStrip(LStrip(s))))

\* int(s, 10) for a str s that parses
ToInt(s) ==
    LET t == RStrip(LStrip(s))
        v == DigitsVal(Unsigned(t), 0)
    IN IF t[1] = "-" THEN 0 - v ELSE v

(***************************************************************************)
(* Values held in Command.args: the tokenizer stores str, the step pass    *)
(* overwrites some of them with int.                                       *)
(***************************************************************************)
StrV(s) == [isint |-> FALSE, s |-> s, n |-> 0]
IntV(n) == [isint |-> TRUE, s |-> <<>>, n |-> n]

\* Outcomes of is_int(x): True, False, or TypeError (int(x, 10) with x an
\* int raises TypeError, which "except ValueError" does not catch)
IsIntResult(a) ==
    IF a.isint THEN "TypeError"
    ELSE IF IntParses(a.s) THEN "True" ELSE "False"

is_int(a) == IsIntResult(a) = "True"

(***************************************************************************)
(* Keywords (constants.py) and the Configuration object                    *)
(***************************************************************************)
K_CFG_CLIENT_ID == <<"C","F","G","_","C","L","I","E","N","T","_","I","D">>
K_CFG_CLEAN_SESSION == <<"C","F","G","_","C","L","E","A","N","_","S","E","S","S","I","O","N">>
K_CFG_KEEPALIVE == <<"C","F","G","_","K","E","E","P","A","L","I","V","E">>
K_CFG_USER == <<"C","F","G","_","U","S","E","R">>
K_CFG_USE_TLS == <<"C","F","G","_","U","S","E","_","T","L","S">>
K_CFG_TLS_CERT == <<"C","F","G","_","T","L","S","_","C","E","R","T">>
K_CFG_PUB_EACH == <<"C","F","G","_","P","U","B","_","E","A","C","H">>
K_CONNECT == <<"C","O","N","N","E","C","T">>
K_DISCONNECT == <<"D","I","S","C","O","N","N","E","C","T">>
K_DELAY == <<"D","E","L","A","Y">>
K_DELAY_MS == <<"D","E","L","A","Y","_","M","S">>
K_DELAY_H == <<"D","E","L","A","Y","_","H">>
K_PUB == <<"P","U","B">>
K_SUB == <<"S","U","B">>
K_YES == <<"Y","E","S">>
K_NO == <<"N","O">>

CMDSCRIPT_COMMANDS ==
    {K_CFG_CLIENT_ID, K_CFG_CLEAN_SESSION, K_CFG_KEEPALIVE, K_CFG_USER,
     K_CFG_USE_TLS, K_CFG_TLS_CERT, K_CFG_PUB_EACH, K_CONNECT,
     K_DISCONNECT, K_DELAY, K_DELAY_MS, K_DELAY_H,
     K_PUB, K_SUB}

CMDSCRIPT_ARGS_YES_NO == {K_YES, K_NO}

RC_OK == 0
RC_FAIL == -1
RC_NO_ARGS == -2

\* The class attributes of Configuration: the value of every field of the
\* module-level config object before the first parse
InitialConfig ==
    [invalid |-> FALSE, commands |-> <<>>, mqtt_host |-> <<>>,
     mqtt_port |-> 1883, clean_session |-> TRUE, keepalive_s |-> 60,
     client_id |-> <<>>, username |-> <<>>, password |-> <<>>,
     use_tls |-> FALSE, tls_cert |-> <<>>, tls_key |-> <<>>,
     subscriptions |-> <<>>, pub_each |-> <<>>, steps_to_execute |-> <<>>]

\* Command(): cmd and args as the tokenizer fills them
Command(words) ==
    [cmd |-> Upper(words[1]),
     args |-> [i \in 1..(Len(words) - 1) |-> StrV(words[i + 1])]]

\* ConfigSubscription() as the SUB branch fills it
ConfigSubscription(a) ==
    [qos |-> ToInt(a[1].s), topic |-> a[2].s, logfile |-> a[3].s]

\* " ".join(args[k:]) of str arguments
JoinArgs(a, k) == StrJoin(SP, [i \in 1..(Len(a) - k + 1) |-> a[i + k - 1].s])

\* the quoted-message test of CFG_PUB_EACH and PUB
BadQuoted(msg) == Len(msg) < 3 \/ msg[1] # QUOTE \/ msg[Len(msg)] # QUOTE

\* msg[1:-1]
Unquote(msg) == SubSeq(msg, 2, Len(msg) - 1)

\* ConfigPublishEach() as the CFG_PUB_EACH branch fills it; time_last_pub
\* keeps its class attribute, 0
ConfigPublishEach(a) ==
    [each |-> ToInt(a[1].s), qos |-> ToInt(a[2].s), topic |-> a[3].s,
     msg |-> Unquote(JoinArgs(a, 4)), time_last_pub |-> 0]

(***************************************************************************)
(* cmdscript_parse: the tokenizer                                          *)
(***************************************************************************)
\* The scan of lines 361-371 over lines[1 .. Len-1] (range(len(cmdscript)-1)
\* leaves the last element of the split unexamined).  rm lists the 1-based
\* indexes to remove, w the warned lines; exc is set when line.split()[0]
\* raises IndexError on a line of whitespace only.
RECURSIVE ScanLines(_, _, _)
ScanLines(lines, i, acc) ==
    IF i > Len(lines) - 1 \/ acc.exc THEN acc
    ELSE LET line == lines[i] IN
         IF Len(line) = 0 \/ line[1] = HASH
         THEN ScanLines(lines, i + 1, [acc EXCEPT !.rm = Append(@, i)])
         ELSE IF Len(SplitWs(line)) = 0
         THEN [acc EXCEPT !.exc = TRUE]
         ELSE IF SplitWs(line)[1] \notin CMDSCRIPT_COMMANDS
         THEN ScanLines(lines, i + 1,
                        [acc EXCEPT !.rm = Append(@, i), !.w = Append(@, line)])
         ELSE ScanLines(lines, i + 1, acc)

\* del cmdscript[i]
DelAt(lines, i) == SubSeq(lines, 1, i - 1) \o SubSeq(lines, i + 1, Len(lines))

\* lines 373-376
RECURSIVE RemoveLines(_, _, _)
RemoveLines(lines, rm, removed) ==
    IF Len(rm) = 0 THEN lines
    ELSE RemoveLines(DelAt(lines, Head(rm) - removed), Tail(rm), removed + 1)

\* lines 356-358
SplitLines(text) == StrSplit(ReplaceCRLF(text), LF)

\* lines 378-383: one Command per remaining line
Commands(lines) == [i \in 1..Len(lines) |-> Command(StrSplit(lines[i], SP))]

\* lines 356-383: the commands appended to config.commands, the warnings
\* logged, and whether the scan raised
Tokenize(text) ==
    LET lines == SplitLines(text)
        scan == ScanLines(lines, 1, [rm |-> <<>>, w |-> <<>>, exc |-> FALSE])
    IN [commands |-> IF scan.exc THEN <<>>
                     ELSE Commands(RemoveLines(lines, scan.rm, 0)),
        w |-> scan.w, exc |-> scan.exc]

(***************************************************************************)
(* cmdscript_parse: the configuration pass (lines 385-494)                 *)
(***************************************************************************)
\* config.invalid = True; continue
Invalid(cfg) == [cfg EXCEPT !.invalid = TRUE]

\* the YES / NO assignment of CFG_CLEAN_SESSION and CFG_USE_TLS
YesNo(a, old) ==
    IF Upper(a[1].s) = K_YES THEN TRUE
    ELSE IF Upper(a[1].s) = K_NO THEN FALSE ELSE old

\* One iteration of the loop of line 385 on the command c
ConfigCommand(cfg, c) ==
    LET a == c.args IN
    CASE c.cmd = K_CFG_CLIENT_ID ->
           IF Len(a) = 0 THEN Invalid(cfg)
           ELSE [cfg EXCEPT !.client_id = a[1].s]
      [] c.cmd = K_CFG_CLEAN_SESSION ->
           IF Len(a) = 0 THEN Invalid(cfg)
           ELSE IF a[1].s \notin CMDSCRIPT_ARGS_YES_NO THEN Invalid(cfg)
           ELSE [cfg EXCEPT !.clean_session = YesNo(a, @)]
      [] c.cmd = K_CFG_KEEPALIVE ->
           IF Len(a) = 0 THEN Invalid(cfg)
           ELSE IF ~is_int(a[1]) THEN Invalid(cfg)
           ELSE [cfg EXCEPT !.keepalive_s = ToInt(a[1].s)]
      [] c.cmd = K_CFG_USER ->
           IF Len(a) < 2 THEN Invalid(cfg)
           ELSE [cfg EXCEPT !.username = a[1].s, !.password = a[2].s]
      [] c.cmd = K_CFG_TLS_CERT ->
           IF Len(a) < 2 THEN Invalid(cfg)
           ELSE [cfg EXCEPT !.tls_cert = a[1].s, !.tls_key = a[2].s]
      [] c.cmd = K_CFG_USE_TLS ->
           IF Len(a) = 0 THEN Invalid(cfg)
           ELSE IF a[1].s \notin CMDSCRIPT_ARGS_YES_NO THEN Invalid(cfg)
           ELSE [cfg EXCEPT !.use_tls = YesNo(a, @)]
      [] c.cmd = K_CFG_PUB_EACH ->
           IF Len(a) < 4 THEN Invalid(cfg)
           ELSE IF ~is_int(a[1]) \/ ~is_int(a[2]) THEN Invalid(cfg)
           ELSE IF BadQuoted(JoinArgs(a, 4)) THEN Invalid(cfg)
           ELSE [cfg EXCEPT !.pub_each = Append(@, ConfigPublishEach(a))]
      [] c.cmd = K_SUB ->
           IF Len(a) < 3 THEN Invalid(cfg)
           ELSE IF ~is_int(a[1]) THEN Invalid(cfg)
           ELSE [cfg EXCEPT !.subscriptions = Append(@, ConfigSubscription(a))]
      [] c.cmd = K_CONNECT ->
           IF Len(a) < 2 THEN Invalid(cfg)
           ELSE IF ~is_int(a[2]) THEN Invalid(cfg)
           ELSE [cfg EXCEPT !.mqtt_host = a[1].s, !.mqtt_port = ToInt(a[2].s)]
      [] OTHER -> cfg

\* ConfigPass with break in the place of continue: the loop is left at the
\* first violation
RECURSIVE ConfigPassMutant(_, _)
ConfigPassMutant(cfg, i) ==
    IF i > Len(cfg.commands) THEN cfg
    ELSE LET c == ConfigCommand([cfg EXCEPT !.invalid = FALSE], cfg.commands[i])
         IN IF c.invalid THEN [c EXCEPT !.invalid = TRUE]
            ELSE ConfigPassMutant([c EXCEPT !.invalid = cfg.invalid], i + 1)

\* The loop of line 385 over config.commands[i ..]
RECURSIVE ConfigPass(_, _)
ConfigPass(cfg, i) ==
    IF i > Len(cfg.commands) THEN cfg
    ELSE ConfigPass(ConfigCommand(cfg, cfg.commands[i]), i + 1)

(***************************************************************************)
(* cmdscript_parse: the step pass (lines 496-531).  The pass state is the  *)
(* configuration, whether the loop has been left by break, and whether an  *)
(* exception has left the function.  A step is the Command object itself:  *)
(* the rewritten args show in config.commands as well.                     *)
(***************************************************************************)
\* StepBreak with continue in the place of break
StepBreakMutant(st) == [st EXCEPT !.cfg.invalid = TRUE]

\* logger.error(...); config.invalid = True; break
StepBreak(st) == [st EXCEPT !.cfg.invalid = TRUE, !.stop = TRUE]

StepRaise(st) == [st EXCEPT !.exc = TRUE]

\* config.steps_to_execute.append(cmd_arg), cmd_arg being config.commands[i]
\* with its args replaced by a
StepAppend(st, i, a) ==
    [st EXCEPT !.cfg.commands[i].args = a,
               !.cfg.steps_to_execute =
                   Append(@, [st.cfg.commands[i] EXCEPT !.args = a])]

\* lines 499-518
StepPub(st, i) ==
    LET a == st.cfg.commands[i].args IN
    IF Len(a) < 3 THEN StepBreak(st)
    ELSE IF IsIntResult(a[1]) = "TypeError" THEN StepRaise(st)
    ELSE IF ~is_int(a[1]) THEN StepBreak(st)
    ELSE IF BadQuoted(JoinArgs(a, 3)) THEN StepBreak(st)
    ELSE StepAppend(st, i, <<IntV(ToInt(a[1].s)), a[2],
                              StrV(Unquote(JoinArgs(a, 3)))>>)

\* lines 519-531
StepDelay(st, i) ==
    LET a == st.cfg.commands[i].args IN
    IF Len(a) = 0 THEN StepBreak(st)
    ELSE IF IsIntResult(a[1]) = "TypeError" THEN StepRaise(st)
    ELSE IF ~is_int(a[1]) THEN StepBreak(st)
    ELSE StepAppend(st, i, [a EXCEPT ![1] = IntV(ToInt(a[1].s))])

\* One iteration of the loop of line 496 on config.commands[i]
StepCommand(st, i) ==
    LET c == st.cfg.commands[i] IN
    CASE c.cmd = K_DISCONNECT -> StepAppend(st, i, c.args)
      [] c.cmd = K_PUB -> StepPub(st, i)
      [] c.cmd \in {K_DELAY, K_DELAY_MS, K_DELAY_H} -> StepDelay(st, i)
      [] OTHER -> st

RECURSIVE StepPass(_, _)
StepPass(st, i) ==
    IF i > Len(st.cfg.commands) \/ st.stop \/ st.exc THEN st
    ELSE StepPass(StepCommand(st, i), i + 1)

(***************************************************************************)
(* cmdscript_parse(cmdscript) on the global config: the configuration it   *)
(* leaves, the warnings it logs and whether it raised                      *)
(***************************************************************************)
cmdscript_parse(cfg, text) ==
    LET tok == Tokenize(text)
        c1 == [cfg EXCEPT !.commands = @ \o tok.commands]
        c2 == ConfigPass(c1, 1)
        st == StepPass([cfg |-> c2, stop |-> FALSE, exc |-> FALSE], 1)
    IN IF tok.exc THEN [cfg |-> cfg, w |-> tok.w, exc |-> TRUE]
       ELSE [cfg |-> st.cfg, w |-> tok.w, exc |-> st.exc]

(***************************************************************************)
(* The interpreter: manage_publish_each_time and run_step_cmd.  The clock  *)
(* counts milliseconds, so a number of seconds is multiplied by            *)
(* MsPerSecond before it is compared with a difference of clock readings.  *)
(***************************************************************************)
\* Python None in time_mqtt_connected, t_wait_start and time_last_pub: a value
\* no clock reading takes
None == -1
NoRc == "NoRc"

MsPerSecond == 1000
SecondsPerHour == 3600

\* One entry of manage_publish_each_time (lines 257-266) at clock reading t:
\* the entry as it is left and whether it fired; exc when time() - None
\* raises TypeError
PubEachEntry(e, t, tconn) ==
    LET last == IF e.time_last_pub = None THEN tconn ELSE e.time_last_pub
    IN IF last = None
       THEN [e |-> [e EXCEPT !.time_last_pub = last], pub |-> FALSE,
             exc |-> TRUE]
       ELSE IF t - last >= e.each * MsPerSecond
       THEN [e |-> [e EXCEPT !.time_last_pub = t], pub |-> TRUE,
             exc |-> FALSE]
       ELSE [e |-> [e EXCEPT !.time_last_pub = last], pub |-> FALSE,
             exc |-> FALSE]

\* the publish call of line 263 for entry i
EachCall(e, i) ==
    [op |-> "publish", by |-> "each", idx |-> i, topic |-> e.topic,
     msg |-> e.msg, qos |-> e.qos]

\* manage_publish_each_time: the entries after the sweep
SweepEntries(entries, t, tconn) ==
    [i \in 1..Len(entries) |-> PubEachEntry(entries[i], t, tconn).e]

\* mutant: the sweep ends at the first entry that publishes
SweepCallsMutant(entries, i, t, tconn) ==
    LET pubs == {k \in i..Len(entries) : PubEachEntry(entries[k], t, tconn).pub}
    IN IF pubs = {} THEN <<>>
       ELSE LET k == CHOOSE k \in pubs : \A j \in pubs : k <= j
            IN <<EachCall(entries[k], k)>>

\* manage_publish_each_time: the publish calls of the sweep, in list order
RECURSIVE SweepCalls(_, _, _, _)
SweepCalls(entries, i, t, tconn) ==
    IF i > Len(entries) THEN <<>>
    ELSE (IF PubEachEntry(entries[i], t, tconn).pub
          THEN <<EachCall(entries[i], i)>> ELSE <<>>)
         \o SweepCalls(entries, i + 1, t, tconn)

\* mutant: every Delay counts its argument in seconds
WaitTimeMutant(c) == c.args[1].n * MsPerSecond

\* wait_t of lines 292-296, in milliseconds
WaitTime(c) ==
    IF c.cmd = K_DELAY_MS THEN c.args[1].n
    ELSE IF c.cmd = K_DELAY_H THEN c.args[1].n * SecondsPerHour * MsPerSecond
    ELSE c.args[1].n * MsPerSecond

\* mutant: t_wait_start is taken anew in every tick
WaitStartMutant(tw, t) == t

\* lines 297-300: t_wait_start once the step has been looked at
WaitStart(tw, t) == IF tw = None THEN t ELSE tw

\* line 300
DelayDone(c, tw, t) == t - WaitStart(tw, t) >= WaitTime(c)

\* mutant: a PUB step publishes and is not completed
run_step_cmdRepeat(c, i, tw, t) ==
    CASE c.cmd = K_DISCONNECT ->
           [calls |-> <<[op |-> "disconnect", by |-> "step", idx |-> i]>>,
            exit |-> TRUE, tw |-> tw, ret |-> TRUE]
      [] c.cmd = K_PUB ->
           [calls |-> <<[op |-> "publish", by |-> "step", idx |-> i,
                         topic |-> c.args[2].s, msg |-> c.args[3].s,
                         qos |-> c.args[1].n]>>,
            exit |-> FALSE, tw |-> tw, ret |-> FALSE]
      [] c.cmd \in {K_DELAY, K_DELAY_MS, K_DELAY_H} ->
           IF DelayDone(c, tw, t)
           THEN [calls |-> <<>>, exit |-> FALSE, tw |-> None, ret |-> TRUE]
           ELSE [calls |-> <<>>, exit |-> FALSE, tw |-> WaitStart(tw, t),
                 ret |-> FALSE]
      [] OTHER -> [calls |-> <<>>, exit |-> FALSE, tw |-> tw, ret |-> FALSE]

\* mutant: a Delay step that completes leaves t_wait_start set
run_step_cmdMutant(c, i, tw, t) ==
    CASE c.cmd = K_DISCONNECT ->
           [calls |-> <<[op |-> "disconnect", by |-> "step", idx |-> i]>>,
            exit |-> TRUE, tw |-> tw, ret |-> TRUE]
      [] c.cmd = K_PUB ->
           [calls |-> <<[op |-> "publish", by |-> "step", idx |-> i,
                         topic |-> c.args[2].s, msg |-> c.args[3].s,
                         qos |-> c.args[1].n]>>,
            exit |-> FALSE, tw |-> tw, ret |-> TRUE]
      [] c.cmd \in {K_DELAY, K_DELAY_MS, K_DELAY_H} ->
           [calls |-> <<>>, exit |-> FALSE, tw |-> WaitStart(tw, t),
            ret |-> DelayDone(c, tw, t)]
      [] OTHER -> [calls |-> <<>>, exit |-> FALSE, tw |-> tw, ret |-> FALSE]

\* run_step_cmd(mqtt_client, c) at clock reading t with t_wait_start = tw:
\* the client calls, the globals it leaves and its return value
run_step_cmd(c, i, tw, t) ==
    CASE c.cmd = K_DISCONNECT ->
           [calls |-> <<[op |-> "disconnect", by |-> "step", idx |-> i]>>,
            exit |-> TRUE, tw |-> tw, ret |-> TRUE]
      [] c.cmd = K_PUB ->
           [calls |-> <<[op |-> "publish", by |-> "step", idx |-> i,
                         topic |-> c.args[2].s, msg |-> c.args[3].s,
                         qos |-> c.args[1].n]>>,
            exit |-> FALSE, tw |-> tw, ret |-> TRUE]
      [] c.cmd \in {K_DELAY, K_DELAY_MS, K_DELAY_H} ->
           IF DelayDone(c, tw, t)
           THEN [calls |-> <<>>, exit |-> FALSE, tw |-> None, ret |-> TRUE]
           ELSE [calls |-> <<>>, exit |-> FALSE, tw |-> WaitStart(tw, t),
                 ret |-> FALSE]
      [] OTHER -> [calls |-> <<>>, exit |-> FALSE, tw |-> tw, ret |-> FALSE]

\* mutant: the index advances although no step is left
NoStepMutant(tw) == [calls |-> <<>>, exit |-> FALSE, tw |-> tw, ret |-> TRUE]

\* the step part of one loop iteration (lines 331-333)
NoStep(tw) == [calls |-> <<>>, exit |-> FALSE, tw |-> tw, ret |-> FALSE]

\* mutant: a DISCONNECT step does not set app_exit
StepResultNoExit(cfg, s, tw, t) ==
    IF s < Len(cfg.steps_to_execute)
    THEN [run_step_cmd(cfg.steps_to_execute[s + 1], s, tw, t)
             EXCEPT !.exit = FALSE]
    ELSE NoStep(tw)

StepResult(cfg, s, tw, t) ==
    IF s < Len(cfg.steps_to_execute)
    THEN run_step_cmd(cfg.steps_to_execute[s + 1], s, tw, t)
    ELSE NoStep(tw)

Disconnects(cs) == Len(SelectSeq(cs, LAMBDA c : c.op = "disconnect"))

(***************************************************************************)
(* Script lines the model draws its scripts from                           *)
(***************************************************************************)
\* PUB 0 t "m"
L_PUB == <<"P","U","B"," ","0"," ","t"," ","\"","m","\"">>
\* PUB 1 t "a b"
L_PUB_2W == <<"P","U","B"," ","1"," ","t"," ","\"","a"," ","b","\"">>
\* pub 0 t "m"
L_PUB_LOWER == <<"p","u","b"," ","0"," ","t"," ","\"","m","\"">>
\* PUB x t "m"
L_PUB_NOINT == <<"P","U","B"," ","x"," ","t"," ","\"","m","\"">>
\* PUB 0 t m
L_PUB_NOQUOTE == <<"P","U","B"," ","0"," ","t"," ","m">>
\* PUB 0 t
L_PUB_SHORT == <<"P","U","B"," ","0"," ","t">>
\* DELAY 1
L_DELAY == <<"D","E","L","A","Y"," ","1">>
\* Delay 1
L_DELAY_MIXED == <<"D","e","l","a","y"," ","1">>
\* DELAY -1
L_DELAY_NEG == <<"D","E","L","A","Y"," ","-","1">>
\* DELAY abc
L_DELAY_NOINT == <<"D","E","L","A","Y"," ","a","b","c">>
\* DELAY
L_DELAY_NOARG == <<"D","E","L","A","Y">>
\* DELAY_MS 150
L_DELAY_MS == <<"D","E","L","A","Y","_","M","S"," ","1","5","0">>
\* DELAY_H 1
L_DELAY_H == <<"D","E","L","A","Y","_","H"," ","1">>
\* DISCONNECT
L_DISCONNECT == <<"D","I","S","C","O","N","N","E","C","T">>
\* ''
L_BLANK == <<>>
\* #c
L_COMMENT == <<"#","c">>
\* ' '
L_SPACES == <<" ">>
\* FOO 1
L_UNKNOWN == <<"F","O","O"," ","1">>
\* CONNECT h 1883
L_CONNECT == <<"C","O","N","N","E","C","T"," ","h"," ","1","8","8","3">>
\* CONNECT g 8883
L_CONNECT_2 == <<"C","O","N","N","E","C","T"," ","g"," ","8","8","8","3">>
\* CONNECT h x
L_CONNECT_NOINT == <<"C","O","N","N","E","C","T"," ","h"," ","x">>
\* CONNECT h
L_CONNECT_SHORT == <<"C","O","N","N","E","C","T"," ","h">>
\* CFG_KEEPALIVE 30
L_KEEPALIVE == <<"C","F","G","_","K","E","E","P","A","L","I","V","E"," ","3","0">>
\* CFG_KEEPALIVE x
L_KEEPALIVE_NOINT == <<"C","F","G","_","K","E","E","P","A","L","I","V","E"," ","x">>
\* CFG_CLIENT_ID id
L_CLIENT_ID == <<"C","F","G","_","C","L","I","E","N","T","_","I","D"," ","i","d">>
\* CFG_CLIENT_ID
L_CLIENT_ID_NOARG == <<"C","F","G","_","C","L","I","E","N","T","_","I","D">>
\* CFG_CLEAN_SESSION NO
L_CLEAN_NO == <<"C","F","G","_","C","L","E","A","N","_","S","E","S","S","I","O","N"," ","N","O">>
\* CFG_CLEAN_SESSION no
L_CLEAN_LOWER == <<"C","F","G","_","C","L","E","A","N","_","S","E","S","S","I","O","N"," ","n","o">>
\* CFG_CLEAN_SESSION
L_CLEAN_NOARG == <<"C","F","G","_","C","L","E","A","N","_","S","E","S","S","I","O","N">>
\* CFG_USE_TLS YES
L_TLS_YES == <<"C","F","G","_","U","S","E","_","T","L","S"," ","Y","E","S">>
\* CFG_USE_TLS ON
L_TLS_BAD == <<"C","F","G","_","U","S","E","_","T","L","S"," ","O","N">>
\* CFG_USER u p
L_USER == <<"C","F","G","_","U","S","E","R"," ","u"," ","p">>
\* CFG_USER u
L_USER_SHORT == <<"C","F","G","_","U","S","E","R"," ","u">>
\* CFG_TLS_CERT c k
L_CERT == <<"C","F","G","_","T","L","S","_","C","E","R","T"," ","c"," ","k">>
\* CFG_TLS_CERT c
L_CERT_SHORT == <<"C","F","G","_","T","L","S","_","C","E","R","T"," ","c">>
\* SUB 1 t f
L_SUB == <<"S","U","B"," ","1"," ","t"," ","f">>
\* SUB 0 u g
L_SUB_2 == <<"S","U","B"," ","0"," ","u"," ","g">>
\* SUB 0 t g
L_SUB_SAME == <<"S","U","B"," ","0"," ","t"," ","g">>
\* SUB 0 # w
L_SUB_WILD == <<"S","U","B"," ","0"," ","#"," ","w">>
\* SUB x t f
L_SUB_NOINT == <<"S","U","B"," ","x"," ","t"," ","f">>
\* SUB 1 t
L_SUB_SHORT == <<"S","U","B"," ","1"," ","t">>
\* CFG_PUB_EACH 1 0 t "p"
L_EACH_1 == <<"C","F","G","_","P","U","B","_","E","A","C","H"," ","1"," ","0"," ","t"," ","\"","p","\"">>
\* CFG_PUB_EACH 2 1 u "q r"
L_EACH_2 == <<"C","F","G","_","P","U","B","_","E","A","C","H"," ","2"," ","1"," ","u"," ","\"","q"," ","r","\"">>
\* CFG_PUB_EACH 0 0 t "p"
L_EACH_ZERO == <<"C","F","G","_","P","U","B","_","E","A","C","H"," ","0"," ","0"," ","t"," ","\"","p","\"">>
\* CFG_PUB_EACH -1 0 t "p"
L_EACH_NEG == <<"C","F","G","_","P","U","B","_","E","A","C","H"," ","-","1"," ","0"," ","t"," ","\"","p","\"">>
\* CFG_PUB_EACH x 0 t "p"
L_EACH_NOINT == <<"C","F","G","_","P","U","B","_","E","A","C","H"," ","x"," ","0"," ","t"," ","\"","p","\"">>
\* CFG_PUB_EACH 1 0 t p
L_EACH_NOQUOTE == <<"C","F","G","_","P","U","B","_","E","A","C","H"," ","1"," ","0"," ","t"," ","p">>
\* CFG_PUB_EACH 1 0 t
L_EACH_SHORT == <<"C","F","G","_","P","U","B","_","E","A","C","H"," ","1"," ","0"," ","t">>

\* The text of a file holding the given lines, each pair separated by eol,
\* with or without an end of line after the last one
RECURSIVE JoinLines(_, _)
JoinLines(ls, eol) ==
    IF Len(ls) = 0 THEN <<>>
    ELSE IF Len(ls) = 1 THEN ls[1]
    ELSE ls[1] \o eol \o JoinLines(Tail(ls), eol)

Text(ls, eol, trailing) ==
    JoinLines(ls, eol) \o (IF trailing /\ Len(ls) > 0 THEN eol ELSE <<>>)

\* every sequence of at most n lines of the set F
SeqsUpTo(F, n) == UNION {[1..k -> F] : k \in 0..n}

(***************************************************************************)
(* Bounds and the scripts of the two specifications                        *)
(***************************************************************************)
MaxLines == 3      \* lines of a script of the parser specification
MaxSteps == 2      \* step lines of a script of the run specification
MaxTicks == 3      \* iterations of the interpreter loop
MaxDrops == 1      \* connection losses

\* time.sleep(0.10) returns after at least 100 ms; the loop may be delayed
\* longer
TickMs == 100
Deltas == {TickMs, MsPerSecond, SecondsPerHour * MsPerSecond}

\* time() counts from 1970: the first clock reading is later than every
\* interval and delay of the scripts (here one day after the origin)
StartTime == 24 * SecondsPerHour * MsPerSecond

\* lines the tokenizer treats differently
TokLines == {L_PUB_LOWER, L_BLANK, L_COMMENT, L_SUB}
TokLines2 == {L_DELAY_MIXED, L_UNKNOWN, L_SPACES, L_SUB}
TokFamilies == {TokLines, TokLines2}

\* lines of one grammar each, well-formed and not
PubLines == {L_PUB, L_PUB_2W, L_PUB_NOINT, L_DISCONNECT}
PubLines2 == {L_PUB, L_PUB_NOQUOTE, L_PUB_SHORT, L_DELAY}
DelayLines == {L_DELAY, L_DELAY_NEG, L_DELAY_NOINT, L_PUB}
DelayLines2 == {L_DELAY_MS, L_DELAY_H, L_DELAY_NOARG, L_PUB}
ConnLines == {L_CONNECT, L_CONNECT_2, L_CONNECT_NOINT, L_PUB}
ConnLines2 == {L_CONNECT, L_CONNECT_SHORT, L_KEEPALIVE, L_KEEPALIVE_NOINT}
FlagLines == {L_CLEAN_NO, L_CLEAN_LOWER, L_CLEAN_NOARG, L_CLIENT_ID}
FlagLines2 == {L_TLS_YES, L_TLS_BAD, L_CLIENT_ID, L_CLIENT_ID_NOARG}
CredLines == {L_USER, L_USER_SHORT, L_CERT, L_CERT_SHORT}
SubLines == {L_SUB, L_SUB_2, L_SUB_NOINT, L_SUB_SHORT}
EachLines == {L_EACH_1, L_EACH_NOINT, L_EACH_NOQUOTE, L_EACH_SHORT}
EachLines2 == {L_EACH_1, L_EACH_ZERO, L_EACH_NEG}

GrammarFamilies == {PubLines, PubLines2, DelayLines, DelayLines2, ConnLines,
                    ConnLines2, FlagLines, FlagLines2, CredLines, SubLines,
                    EachLines, EachLines2}

\* line end, and whether the last line has one
TokEnds == {<< <<LF>>, TRUE >>, << <<CR, LF>>, TRUE >>, << <<LF>>, FALSE >>}

\* scripts of the parser specification: up to MaxLines lines of one family;
\* the tokenizer families with both line ends and without a final line end
ParseScripts ==
    {Text(ls, e[1], e[2]) :
        ls \in UNION {SeqsUpTo(F, MaxLines) : F \in TokFamilies},
        e \in TokEnds}
    \cup
    {Text(ls, <<LF>>, TRUE) :
        ls \in UNION {SeqsUpTo(F, MaxLines) : F \in GrammarFamilies}}

\* configuration parts: a valid one, one the configuration pass rejects and
\* one the step pass rejects
ExecConfigs == {<<L_CONNECT, L_SUB, L_SUB_2, L_EACH_1, L_EACH_2>>,
                <<L_CONNECT_SHORT, L_EACH_1>>,
                <<L_CONNECT, L_DELAY_NOINT>>}
ExecStepFamilies == {{L_PUB, L_DISCONNECT, L_DELAY},
                     {L_PUB, L_DISCONNECT, L_DELAY_MS},
                     {L_PUB, L_DISCONNECT, L_DELAY_H}}

\* scripts of the run specification: a configuration part and up to MaxSteps
\* step lines of one family
ExecScripts ==
    {Text(c \o s, <<LF>>, TRUE) :
        c \in ExecConfigs,
        s \in UNION {SeqsUpTo(F, MaxSteps) : F \in ExecStepFamilies}}

(***************************************************************************)
(* The state machine                                                       *)
(***************************************************************************)
InitWith(scripts) ==
    /\ script \in scripts
    /\ pc = "main"
    /\ rc = NoRc
    /\ parses = 0
    /\ config = InitialConfig
    /\ warned = <<>>
    /\ app_exit = FALSE
    /\ mqtt_connection_lost = FALSE
    /\ time_mqtt_connected = None
    /\ t_wait_start = None
    /\ step = 0
    /\ now = StartTime
    /\ client_state = "new"
    /\ net = "off"
    /\ connects = 0
    /\ subscribes = <<>>
    /\ drops = 0
    /\ calls = <<>>
    /\ ticks = 0
    /\ logs = <<>>
    /\ received = <<>>
    /\ published = <<>>

Init == InitWith(ExecScripts)

InitParse == InitWith(ParseScripts)

mainVars == <<script, pc, rc, parses, config, warned>>
runVars == <<app_exit, mqtt_connection_lost, time_mqtt_connected,
             t_wait_start, step, now, client_state, net, connects, subscribes,
             drops, calls, ticks, logs>>

\* main, lines 566-569: file_read_all_text returns "" for a missing,
\* unreadable or empty file
MainRead ==
    /\ pc = "main"
    /\ IF Len(script) = 0
       THEN pc' = "done" /\ rc' = RC_FAIL
       ELSE pc' = "parse" /\ rc' = rc
    /\ UNCHANGED <<received, published>>
    /\ UNCHANGED <<script, parses, config, warned>>
    /\ UNCHANGED runVars

\* a call cmdscript_parse(cmdscript): to is where the caller continues
ParseCall(to) ==
    LET r == cmdscript_parse(config, script) IN
    /\ config' = r.cfg
    /\ warned' = warned \o r.w
    /\ parses' = parses + 1
    /\ pc' = IF r.exc THEN "crashed" ELSE to
    /\ UNCHANGED <<received, published>>
    /\ UNCHANGED <<script, rc>>
    /\ UNCHANGED runVars

\* main, line 571
MainParse ==
    /\ pc = "parse"
    /\ ParseCall("check")

\* a test that calls cmdscript_parse on the same text once more
ParseAgain ==
    /\ pc = "check"
    /\ parses = 1
    /\ ParseCall("check")

\* MainCheck with the test of config.invalid left out
MainCheckMutant ==
    /\ pc = "check"
    /\ pc' = "interp"
    /\ UNCHANGED <<received, published>>
    /\ UNCHANGED <<script, rc, parses, config, warned>>
    /\ UNCHANGED runVars

\* main, lines 573-577
MainCheck ==
    /\ pc = "check"
    /\ IF config.invalid
       THEN pc' = "done" /\ rc' = RC_FAIL
       ELSE pc' = "interp" /\ rc' = rc
    /\ UNCHANGED <<received, published>>
    /\ UNCHANGED <<script, parses, config, warned>>
    /\ UNCHANGED runVars

\* mutant: a client that has lost the connection counts as connected
is_connectedMutant == client_state \in {"connected", "lost"}

\* mqtt_client.is_connected()
is_connected == client_state = "connected"

\* client_id of line 313; the uuid is left symbolic
GeneratedClientId ==
    <<"m","q","t","t","c","m","d","s","c","r","i","p","t","_","u","u","i","d">>

\* cmdscript_interpreter, lines 309-325.  mqtt_client.connect either returns
\* or raises (host unreachable, invalid host), which leaves main; on return
\* the network thread is started.
InterpStart ==
    /\ pc = "interp"
    /\ config' = [config EXCEPT !.client_id =
                      IF Len(@) = 0 THEN GeneratedClientId ELSE @]
    /\ connects' = connects + 1
    /\ \E ok \in BOOLEAN :
         IF ok THEN pc' = "loop" /\ net' = "run"
               ELSE pc' = "crashed" /\ net' = net
    /\ step' = 0
    /\ UNCHANGED <<received, published>>
    /\ UNCHANGED <<script, rc, parses, warned, app_exit, mqtt_connection_lost,
                   time_mqtt_connected, t_wait_start, now, client_state,
                   subscribes, drops, calls, ticks, logs>>

\* mqtt_client.disconnect(): the state the client is left in
AfterDisconnect(cs) ==
    IF cs \in {"connected", "disconnecting"} THEN "disconnecting" ELSE "closed"

\* the sweep raises when an entry reads None for the connection time
SweepRaises(entries, t, tconn) ==
    \E i \in 1..Len(entries) : PubEachEntry(entries[i], t, tconn).exc

\* One iteration of the loop of line 326, up to the sleep: lines 327-333 with
\* the clock reading now
Tick ==
    /\ pc = "loop"
    /\ ~app_exit
    /\ ticks < MaxTicks
    /\ ticks' = ticks + 1
    /\ IF ~is_connected
       THEN /\ pc' = "sleep"
            /\ calls' = <<>>
            /\ UNCHANGED <<config, step, t_wait_start, app_exit, client_state,
                           published>>
       ELSE IF SweepRaises(config.pub_each, now, time_mqtt_connected)
       THEN /\ pc' = "crashed"
            /\ calls' = <<>>
            /\ UNCHANGED <<config, step, t_wait_start, app_exit, client_state,
                           published>>
       ELSE LET sweep == SweepCalls(config.pub_each, 1, now, time_mqtt_connected)
                r == StepResult(config, step, t_wait_start, now)
            IN /\ pc' = "sleep"
               /\ config' = [config EXCEPT !.pub_each =
                                 SweepEntries(@, now, time_mqtt_connected)]
               /\ calls' = sweep \o r.calls
               /\ published' = published \o
                      SelectSeq(r.calls, LAMBDA c : c.op = "publish")
               /\ t_wait_start' = r.tw
               /\ app_exit' = (app_exit \/ r.exit)
               /\ step' = IF r.ret THEN step + 1 ELSE step
               /\ client_state' = IF Disconnects(r.calls) > 0
                                  THEN AfterDisconnect(client_state)
                                  ELSE client_state
    /\ UNCHANGED received
    /\ UNCHANGED <<script, rc, parses, warned, mqtt_connection_lost,
                   time_mqtt_connected, now, net, connects, subscribes, drops,
                   logs>>

\* sleep(0.10), line 334: the clock moves on by at least the tick
Sleep ==
    /\ pc = "sleep"
    /\ \E d \in Deltas : now' = now + d
    /\ pc' = "loop"
    /\ UNCHANGED <<received, published>>
    /\ UNCHANGED <<script, rc, parses, config, warned>>
    /\ UNCHANGED <<app_exit, mqtt_connection_lost, time_mqtt_connected,
                   t_wait_start, step, client_state, net, connects,
                   subscribes, drops, calls, ticks, logs>>

\* mutant: the loop is left without mqtt_client.disconnect()
CloseMutant ==
    /\ pc = "loop"
    /\ app_exit
    /\ pc' = "join"
    /\ UNCHANGED <<received, published>>
    /\ UNCHANGED <<script, rc, parses, config, warned>>
    /\ UNCHANGED <<app_exit, mqtt_connection_lost, time_mqtt_connected,
                   t_wait_start, step, now, client_state, net, connects,
                   subscribes, drops, calls, ticks, logs>>

\* the loop condition of line 326 read as false, then lines 336-338:
\* mqtt_client.disconnect() and loop_stop()
Close ==
    /\ pc = "loop"
    /\ app_exit
    /\ client_state' = AfterDisconnect(client_state)
    /\ pc' = "join"
    /\ UNCHANGED <<received, published>>
    /\ UNCHANGED <<script, rc, parses, config, warned>>
    /\ UNCHANGED <<app_exit, mqtt_connection_lost, time_mqtt_connected,
                   t_wait_start, step, now, net, connects, subscribes, drops,
                   calls, ticks, logs>>

\* lines 339-342: the join returns once the network thread has ended
Join ==
    /\ pc = "join"
    /\ net = "ended"
    /\ pc' = "done"
    /\ rc' = RC_OK
    /\ UNCHANGED <<received, published>>
    /\ UNCHANGED <<script, parses, config, warned>>
    /\ UNCHANGED runVars

\* system_termination_signal_handler.  The handlers are installed before main
\* runs, the handler only sets app_exit, and app_exit is read by the loop
\* condition alone: a signal that arrives before the loop leaves the state
\* that one arriving right before the first reading of the loop condition
\* leaves.  Within the loop it arrives before the condition is read or with
\* the iteration in progress.
Signal ==
    /\ pc \in {"loop", "sleep"}
    /\ ~app_exit
    /\ app_exit' = TRUE
    /\ UNCHANGED <<received, published>>
    /\ UNCHANGED <<script, pc, rc, parses, config, warned>>
    /\ UNCHANGED <<mqtt_connection_lost, time_mqtt_connected, t_wait_start,
                   step, now, client_state, net, connects, subscribes, drops,
                   calls, ticks, logs>>

(***************************************************************************)
(* The network thread (th_mqtt_process: loop_forever) and the callbacks it *)
(* runs.  A step of the thread is one event of the connection together     *)
(* with the callback the client calls for it; a lost connection is         *)
(* re-established by loop_forever.                                         *)
(***************************************************************************)
LogLines(subs, line) ==
    [i \in 1..Len(subs) |-> [file |-> subs[i].logfile, line |-> line]]

\* mutant: the connect line does not tell a restored connection
ConnectLineMutant(lost) == " -- MQTT Connected --"

\* the text cb_mqtt_on_connect writes after the timestamp
ConnectLine(lost) ==
    IF lost THEN " -- MQTT Connected (Communication Restored) --"
    ELSE " -- MQTT Connected --"

\* mutant: the topics are subscribed on the first connection only
SubscribeCallsMutant(subs) ==
    IF mqtt_connection_lost THEN <<>>
    ELSE [i \in 1..Len(subs) |-> [topic |-> subs[i].topic, qos |-> subs[i].qos]]

\* lines 202-203: client.subscribe(sub.topic, sub.qos) for every subscription
SubscribeCalls(subs) ==
    [i \in 1..Len(subs) |-> [topic |-> subs[i].topic, qos |-> subs[i].qos]]

\* The broker accepts the connection (first connect or reconnect):
\* cb_mqtt_on_connect
cb_mqtt_on_connect ==
    /\ net = "run"
    /\ client_state \in {"new", "lost"}
    /\ client_state' = "connected"
    /\ logs' = logs \o LogLines(config.subscriptions,
                                ConnectLine(mqtt_connection_lost))
    /\ mqtt_connection_lost' = FALSE
    /\ time_mqtt_connected' = now
    /\ subscribes' = subscribes \o SubscribeCalls(config.subscriptions)
    /\ UNCHANGED <<received, published>>
    /\ UNCHANGED mainVars
    /\ UNCHANGED <<app_exit, t_wait_start, step, now, net, connects, drops,
                   calls, ticks>>

\* lines 213-220 for the given reason_code
OnDisconnect(reason_code) ==
    IF ~mqtt_connection_lost
    THEN /\ mqtt_connection_lost' = TRUE
         /\ logs' = IF reason_code # 0
                    THEN logs \o LogLines(config.subscriptions,
                                          " -- MQTT Communication Lost --")
                    ELSE logs
    ELSE UNCHANGED <<mqtt_connection_lost, logs>>

\* The connection is lost, after the broker accepted it or before it did:
\* cb_mqtt_on_disconnect with a reason_code other than 0
NetLost ==
    /\ net = "run"
    /\ client_state \in {"new", "connected"}
    /\ drops < MaxDrops
    /\ drops' = drops + 1
    /\ client_state' = "lost"
    /\ OnDisconnect(1)
    /\ UNCHANGED <<received, published>>
    /\ UNCHANGED mainVars
    /\ UNCHANGED <<app_exit, time_mqtt_connected, t_wait_start, step, now,
                   net, connects, subscribes, calls, ticks>>

\* The connection is closed after mqtt_client.disconnect():
\* cb_mqtt_on_disconnect with reason_code 0, then loop_forever returns
NetClosed ==
    /\ net = "run"
    /\ client_state = "disconnecting"
    /\ client_state' = "closed"
    /\ OnDisconnect(0)
    /\ net' = "ended"
    /\ UNCHANGED <<received, published>>
    /\ UNCHANGED mainVars
    /\ UNCHANGED <<app_exit, time_mqtt_connected, t_wait_start, step, now,
                   connects, subscribes, drops, calls, ticks>>

\* loop_forever returns when the client was disconnected with no connection
\* open
NetEnd ==
    /\ net = "run"
    /\ client_state = "closed"
    /\ net' = "ended"
    /\ UNCHANGED <<received, published>>
    /\ UNCHANGED mainVars
    /\ UNCHANGED <<app_exit, mqtt_connection_lost, time_mqtt_connected,
                   t_wait_start, step, now, client_state, connects, subscribes,
                   drops, calls, ticks, logs>>

Next ==
    \/ MainRead
    \/ MainParse
    \/ MainCheck
    \/ InterpStart
    \/ Tick
    \/ Sleep
    \/ Close
    \/ Join
    \/ Signal
    \/ cb_mqtt_on_connect
    \/ NetLost
    \/ NetClosed
    \/ NetEnd

Spec == Init /\ [][Next]_vars

\* The parser alone: main up to its test of config.invalid, and a second call
\* of cmdscript_parse
NextParse == MainRead \/ MainParse \/ ParseAgain \/ MainCheck

SpecParse == InitParse /\ [][NextParse]_vars

(***************************************************************************)
(* Reception of messages: cb_mqtt_on_msg_rx, called by the network thread   *)
(* for every message the broker delivers.  A payload is a sequence of       *)
(* bytes.                                                                  *)
(***************************************************************************)
MaxMsgs == 1

\* the characters of the one-byte and two-byte encodings the payloads use
\* (a character outside ASCII is written by its code point)
Utf8Char(bytes) ==
    CASE bytes = <<109>> -> "m"
      [] bytes = <<32>> -> " "
      [] bytes = <<195, 169>> -> "U+00E9"
      [] OTHER -> "?"

\* bytes.decode("utf-8") (line 229) from position i on: a byte below 128 is
\* one character, a byte in 194..223 followed by a byte in 128..191 is one
\* character, and any other byte met makes the decoding raise
\* UnicodeDecodeError (payloads hold no longer encodings)
RECURSIVE Utf8Decode(_, _)
Utf8Decode(b, i) ==
    IF i > Len(b) THEN [str |-> <<>>, exc |-> FALSE]
    ELSE IF b[i] < 128
    THEN LET r == Utf8Decode(b, i + 1)
         IN [str |-> <<Utf8Char(<<b[i]>>)>> \o r.str, exc |-> r.exc]
    ELSE IF /\ b[i] \in 194..223
            /\ i < Len(b)
            /\ b[i + 1] \in 128..191
    THEN LET r == Utf8Decode(b, i + 2)
         IN [str |-> <<Utf8Char(<<b[i], b[i + 1]>>)>> \o r.str,
             exc |-> r.exc]
    ELSE [str |-> <<>>, exc |-> TRUE]

\* to_write of line 235 after the timestamp
MsgLine(topic, payload_str) ==
    <<" ", "[">> \o topic \o <<"]", " ">> \o payload_str

\* lines 232-236: one line for every subscription whose topic is the topic
\* of the message, in the order of config.subscriptions
RECURSIVE MsgLines(_, _, _)
MsgLines(subs, topic, payload_str) ==
    IF Len(subs) = 0 THEN <<>>
    ELSE (IF Head(subs).topic = topic
          THEN <<[file |-> Head(subs).logfile,
                  line |-> MsgLine(topic, payload_str)]>>
          ELSE <<>>) \o MsgLines(Tail(subs), topic, payload_str)

\* the broker's matching of a topic of one level against a topic filter
BrokerMatches(filter, topic) ==
    filter = topic \/ filter = <<HASH>> \/ filter = <<"+">>

MsgTopics == {<<"t">>, <<"u">>, <<"v">>}
MsgPayloads == {<<109>>, <<109, 32, 195, 169>>, <<>>, <<255>>, <<109, 195>>}

\* The broker delivers a message on a topic that one of the subscriptions
\* matches: cb_mqtt_on_msg_rx.  When the decoding of line 229 raises, nothing
\* is written and the exception leaves the callback: the client either
\* propagates it out of loop_forever, which ends the network thread, or
\* suppresses it.
cb_mqtt_on_msg_rx ==
    /\ net = "run"
    /\ client_state = "connected"
    /\ Len(received) < MaxMsgs
    /\ \E topic \in MsgTopics, payload \in MsgPayloads :
         /\ \E i \in 1..Len(config.subscriptions) :
                BrokerMatches(config.subscriptions[i].topic, topic)
         /\ received' = Append(received, [topic |-> topic, payload |-> payload])
         /\ LET d == Utf8Decode(payload, 1)
            IN IF d.exc
               THEN logs' = logs /\ net' \in {"run", "ended"}
               ELSE /\ logs' = logs \o MsgLines(config.subscriptions, topic,
                                                d.str)
                    /\ net' = net
    /\ UNCHANGED published
    /\ UNCHANGED mainVars
    /\ UNCHANGED <<app_exit, mqtt_connection_lost, time_mqtt_connected,
                   t_wait_start, step, now, client_state, connects, subscribes,
                   drops, calls, ticks>>

\* scripts that subscribe: two subscriptions on one topic, a subscription
\* with a wildcard filter, subscriptions on different topics
MsgConfigs == {<<L_CONNECT, L_SUB, L_SUB_SAME>>,
               <<L_CONNECT, L_SUB, L_SUB_WILD>>,
               <<L_CONNECT, L_SUB, L_SUB_2>>,
               <<L_CONNECT, L_SUB_WILD>>}
MsgSteps == {<<>>, <<L_DELAY>>, <<L_PUB, L_DISCONNECT>>}

MsgScripts == {Text(c \o s, <<LF>>, TRUE) : c \in MsgConfigs, s \in MsgSteps}

InitMsg == InitWith(MsgScripts)

NextMsg == Next \/ cb_mqtt_on_msg_rx

SpecMsg == InitMsg /\ [][NextMsg]_vars

(***************************************************************************)
(* The run with the loop going on: scripts without CFG_PUB_EACH, where an  *)
(* iteration with the step list exhausted changes nothing (the sweep of    *)
(* line 329 has no entry, the test of line 331 is false) and nothing reads *)
(* the clock any more.  Such iterations are taken without end.  The thread *)
(* that runs cmdscript_interpreter keeps running, and loop_forever returns *)
(* once the client has disconnected.                                       *)
(***************************************************************************)
LiveScripts ==
    {Text(<<L_CONNECT, L_SUB>> \o s, <<LF>>, TRUE) :
        s \in UNION {SeqsUpTo(F, MaxSteps) : F \in ExecStepFamilies}}

InitLive == InitWith(LiveScripts)

\* lines 326-333 with nothing left to do
LoopOn ==
    /\ pc = "loop"
    /\ ~app_exit
    /\ ticks = MaxTicks
    /\ step = Len(config.steps_to_execute)
    /\ Len(config.pub_each) = 0
    /\ pc' = "sleep"
    /\ calls' = <<>>
    /\ UNCHANGED <<received, published>>
    /\ UNCHANGED <<script, rc, parses, config, warned>>
    /\ UNCHANGED <<app_exit, mqtt_connection_lost, time_mqtt_connected,
                   t_wait_start, step, now, client_state, net, connects,
                   subscribes, drops, ticks, logs>>

\* line 334 after such an iteration
SleepOn ==
    /\ pc = "sleep"
    /\ ticks = MaxTicks
    /\ pc' = "loop"
    /\ UNCHANGED <<received, published>>
    /\ UNCHANGED <<script, rc, parses, config, warned>>
    /\ UNCHANGED runVars

\* the steps of cmdscript_interpreter from its loop on
InterpRuns ==
    \/ Tick
    \/ (ticks < MaxTicks /\ Sleep)
    \/ LoopOn
    \/ SleepOn
    \/ Close
    \/ Join

NetReturns == NetClosed \/ NetEnd

NextLive ==
    \/ MainRead
    \/ MainParse
    \/ MainCheck
    \/ InterpStart
    \/ InterpRuns
    \/ Signal
    \/ cb_mqtt_on_connect
    \/ NetLost
    \/ NetReturns

SpecLive ==
    InitLive /\ [][NextLive]_vars /\ WF_vars(InterpRuns) /\ WF_vars(NetReturns)

(***************************************************************************)
(* The two threads step by step.  Nothing synchronizes the thread of        *)
(* cmdscript_interpreter with the network thread: the loop body reads       *)
(* is_connected() at line 327 and publishes at lines 329-333, and           *)
(* cb_mqtt_on_connect writes the log files, the flag and the connection     *)
(* time at lines 193-200 and subscribes at lines 202-203, the client        *)
(* reporting itself connected while the callback runs.  The steps of one    *)
(* thread are taken between those of the other in every order.  pc = "body" *)
(* is the interpreter between line 327 and line 329; net = "on_connect" and *)
(* net = "subscribe" are the network thread before line 193 and before     *)
(* line 202.                                                               *)
(***************************************************************************)
\* line 326 read as true and line 327
TickCheck ==
    /\ pc = "loop"
    /\ ~app_exit
    /\ ticks < MaxTicks
    /\ ticks' = ticks + 1
    /\ pc' = IF is_connected THEN "body" ELSE "sleep"
    /\ calls' = <<>>
    /\ UNCHANGED <<received, published>>
    /\ UNCHANGED <<script, rc, parses, config, warned>>
    /\ UNCHANGED <<app_exit, mqtt_connection_lost, time_mqtt_connected,
                   t_wait_start, step, now, client_state, net, connects,
                   subscribes, drops, logs>>

\* lines 329-333, whatever has become of the connection since line 327
TickBody ==
    /\ pc = "body"
    /\ IF SweepRaises(config.pub_each, now, time_mqtt_connected)
       THEN /\ pc' = "crashed"
            /\ calls' = <<>>
            /\ UNCHANGED <<config, step, t_wait_start, app_exit, client_state,
                           published>>
       ELSE LET sweep == SweepCalls(config.pub_each, 1, now, time_mqtt_connected)
                r == StepResult(config, step, t_wait_start, now)
            IN /\ pc' = "sleep"
               /\ config' = [config EXCEPT !.pub_each =
                                 SweepEntries(@, now, time_mqtt_connected)]
               /\ calls' = sweep \o r.calls
               /\ published' = published \o
                      SelectSeq(r.calls, LAMBDA c : c.op = "publish")
               /\ t_wait_start' = r.tw
               /\ app_exit' = (app_exit \/ r.exit)
               /\ step' = IF r.ret THEN step + 1 ELSE step
               /\ client_state' = IF Disconnects(r.calls) > 0
                                  THEN AfterDisconnect(client_state)
                                  ELSE client_state
    /\ UNCHANGED received
    /\ UNCHANGED <<script, rc, parses, warned, mqtt_connection_lost,
                   time_mqtt_connected, now, net, connects, subscribes, drops,
                   ticks, logs>>

\* the broker accepts the connection: the client is connected and calls
\* cb_mqtt_on_connect
ConnAck ==
    /\ net = "run"
    /\ client_state \in {"new", "lost"}
    /\ client_state' = "connected"
    /\ net' = "on_connect"
    /\ UNCHANGED <<received, published>>
    /\ UNCHANGED mainVars
    /\ UNCHANGED <<app_exit, mqtt_connection_lost, time_mqtt_connected,
                   t_wait_start, step, now, connects, subscribes, drops,
                   calls, ticks, logs>>

\* cb_mqtt_on_connect, lines 193-200
OnConnectRecord ==
    /\ net = "on_connect"
    /\ logs' = logs \o LogLines(config.subscriptions,
                                ConnectLine(mqtt_connection_lost))
    /\ mqtt_connection_lost' = FALSE
    /\ time_mqtt_connected' = now
    /\ net' = "subscribe"
    /\ UNCHANGED <<received, published>>
    /\ UNCHANGED mainVars
    /\ UNCHANGED <<app_exit, t_wait_start, step, now, client_state, connects,
                   subscribes, drops, calls, ticks>>

\* cb_mqtt_on_connect, lines 202-203
OnConnectSubscribe ==
    /\ net = "subscribe"
    /\ subscribes' = subscribes \o SubscribeCalls(config.subscriptions)
    /\ net' = "run"
    /\ UNCHANGED <<received, published>>
    /\ UNCHANGED mainVars
    /\ UNCHANGED <<app_exit, mqtt_connection_lost, time_mqtt_connected,
                   t_wait_start, step, now, client_state, connects, drops,
                   calls, ticks, logs>>

NextRace ==
    \/ MainRead
    \/ MainParse
    \/ MainCheck
    \/ InterpStart
    \/ TickCheck
    \/ TickBody
    \/ Sleep
    \/ Close
    \/ Join
    \/ Signal
    \/ ConnAck
    \/ OnConnectRecord
    \/ OnConnectSubscribe
    \/ NetLost
    \/ NetClosed
    \/ NetEnd

SpecRace == Init /\ [][NextRace]_vars

(***************************************************************************)
(* What the specification says of a script, stated on the raw commands     *)
(***************************************************************************)
Min(S) == CHOOSE i \in S : \A j \in S : i <= j

FirstParseDone == pc = "check" /\ parses = 1

DelayKeywords == {K_DELAY, K_DELAY_MS, K_DELAY_H}
StepKeywords == {K_DISCONNECT, K_PUB} \cup DelayKeywords

IsStepCommand(c) == c.cmd \in StepKeywords

\* the argument i of the raw command c is an integer token
IntArg(c, i) == IntParses(c.args[i].s)

\* the tokens of c from k on, joined by spaces, are a quoted string
QuotedFrom(c, k) ==
    LET m == JoinArgs(c.args, k)
    IN Len(m) >= 3 /\ m[1] = QUOTE /\ m[Len(m)] = QUOTE

\* the raw command c violates the grammar of the Step Compiler
StepViolation(c) ==
    \/ c.cmd = K_PUB
       /\ (Len(c.args) < 3 \/ ~IntArg(c, 1) \/ ~QuotedFrom(c, 3))
    \/ c.cmd \in DelayKeywords
       /\ (Len(c.args) = 0 \/ ~IntArg(c, 1))

\* the step a well-formed raw step command compiles to
ExpectedStep(c) ==
    CASE c.cmd = K_PUB ->
           [cmd |-> K_PUB,
            args |-> <<IntV(ToInt(c.args[1].s)), c.args[2],
                       StrV(Unquote(JoinArgs(c.args, 3)))>>]
      [] c.cmd \in DelayKeywords ->
           [cmd |-> c.cmd,
            args |-> [c.args EXCEPT ![1] = IntV(ToInt(c.args[1].s))]]
      [] OTHER -> c

\* index of the first raw command that violates the step grammar, or one past
\* the end
FirstStepViolation(raw) ==
    LET bad == {i \in 1..Len(raw) : StepViolation(raw[i])}
    IN IF bad = {} THEN Len(raw) + 1 ELSE Min(bad)

\* the step list the Step Compiler is to leave: the step commands before the
\* first violation, compiled, in script order
ExpectedSteps(raw) ==
    LET before == SelectSeq(SubSeq(raw, 1, FirstStepViolation(raw) - 1),
                            IsStepCommand)
    IN [k \in 1..Len(before) |-> ExpectedStep(before[k])]

ConfigKeywords ==
    {K_CFG_CLIENT_ID, K_CFG_CLEAN_SESSION, K_CFG_KEEPALIVE, K_CFG_USER,
     K_CFG_TLS_CERT, K_CFG_USE_TLS, K_CFG_PUB_EACH, K_SUB, K_CONNECT}

\* the raw configuration command c meets the grammar of its keyword
ConfigWellFormed(c) ==
    CASE c.cmd = K_CFG_CLIENT_ID -> Len(c.args) >= 1
      [] c.cmd \in {K_CFG_CLEAN_SESSION, K_CFG_USE_TLS} ->
           Len(c.args) >= 1 /\ c.args[1].s \in {K_YES, K_NO}
      [] c.cmd = K_CFG_KEEPALIVE -> Len(c.args) >= 1 /\ IntArg(c, 1)
      [] c.cmd \in {K_CFG_USER, K_CFG_TLS_CERT} -> Len(c.args) >= 2
      [] c.cmd = K_CFG_PUB_EACH ->
           Len(c.args) >= 4 /\ IntArg(c, 1) /\ IntArg(c, 2) /\ QuotedFrom(c, 4)
      [] c.cmd = K_SUB -> Len(c.args) >= 3 /\ IntArg(c, 1)
      [] c.cmd = K_CONNECT -> Len(c.args) >= 2 /\ IntArg(c, 2)
      [] OTHER -> FALSE

ConfigViolation(c) == c.cmd \in ConfigKeywords /\ ~ConfigWellFormed(c)

\* the well-formed commands of keyword kw, in script order
WellFormed(raw, kw) ==
    SelectSeq(raw, LAMBDA c : c.cmd = kw /\ ConfigWellFormed(c))

\* last wins: argument i of the last well-formed command of keyword kw, or
\* the default dflt when there is none
LastArg(raw, kw, i, dflt) ==
    LET good == WellFormed(raw, kw)
    IN IF Len(good) = 0 THEN dflt ELSE good[Len(good)].args[i].s

LastInt(raw, kw, i, dflt) ==
    LET good == WellFormed(raw, kw)
    IN IF Len(good) = 0 THEN dflt ELSE ToInt(good[Len(good)].args[i].s)

LastYes(raw, kw, dflt) ==
    LET good == WellFormed(raw, kw)
    IN IF Len(good) = 0 THEN dflt ELSE good[Len(good)].args[1].s = K_YES

\* the script with the first token of every line in upper case
UpperKeywordLine(line) ==
    LET words == StrSplit(line, SP)
    IN StrJoin(SP, [words EXCEPT ![1] = Upper(@)])

UpperKeywords(text) ==
    LET lines == SplitLines(text)
    IN JoinLines([i \in 1..Len(lines) |-> UpperKeywordLine(lines[i])], <<LF>>)

\* the line is neither blank nor a comment and its first token, in upper
\* case, is no supported keyword
IsUnknownLine(line) ==
    /\ Len(line) > 0
    /\ line[1] # HASH
    /\ Len(SplitWs(line)) > 0
    /\ Upper(SplitWs(line)[1]) \notin CMDSCRIPT_COMMANDS

\* the command a blank line would leave, and a command left by a comment line
BlankCommand(c) == Len(c.cmd) = 0 /\ Len(c.args) = 0
CommentCommand(c) == Len(c.cmd) > 0 /\ c.cmd[1] = HASH

(***************************************************************************)
(* Claims on the parser (specification SpecParse) and on main              *)
(***************************************************************************)

\* C1: if config.invalid is set once cmdscript_parse has run both passes, the
\* interpreter is never started (no connect, no publish, no subscribe, no
\* loop iteration, no network thread) and main returns RC.FAIL.
C1_InvalidNeverRuns ==
    (parses >= 1 /\ config.invalid) =>
        /\ pc \in {"check", "done"}
        /\ connects = 0
        /\ subscribes = <<>>
        /\ ticks = 0
        /\ calls = <<>>
        /\ net = "off"
        /\ client_state = "new"
        /\ (pc = "done" => rc = RC_FAIL)

C1_Witness ==
    /\ pc = "done"
    /\ config.invalid
    /\ rc = RC_FAIL
    /\ Len(config.steps_to_execute) > 0

\* C2: keyword matching is case-insensitive: the configuration (raw commands,
\* settings and step list) a script leaves is the one the same script leaves
\* with the keyword of every line written in upper case.
C2_CaseInsensitive ==
    FirstParseDone =>
        config = cmdscript_parse(InitialConfig, UpperKeywords(script)).cfg

\* C3: no blank line and no line beginning with '#' appears in the raw
\* command list, wherever it stands in the script.
C3_NoBlankNoComment ==
    FirstParseDone =>
        \A i \in 1..Len(config.commands) :
            /\ ~BlankCommand(config.commands[i])
            /\ ~CommentCommand(config.commands[i])

\* C4: every line whose first token is no supported keyword is dropped from
\* the raw command list and is warned about exactly once, and a script of
\* such lines, blank lines and comments does not set config.invalid.
C4_UnknownDropped ==
    FirstParseDone =>
        LET lines == SplitLines(script) IN
        /\ \A k \in 1..Len(lines) :
               IsUnknownLine(lines[k]) =>
                   \A i \in 1..Len(config.commands) :
                       config.commands[i] # Command(StrSplit(lines[k], SP))
        /\ SelectSeq(warned, IsUnknownLine) = SelectSeq(lines, IsUnknownLine)
        /\ (\A i \in 1..Len(lines) :
               Len(lines[i]) = 0 \/ lines[i][1] = HASH \/ IsUnknownLine(lines[i]))
           => ~config.invalid

\* C5: the first PUB / DELAY / DELAY_MS / DELAY_H command that violates its
\* grammar sets config.invalid and ends the step pass: the step list holds
\* the steps of the commands before it, in script order, and no step of any
\* later command.
C5_StepPassStops ==
    FirstParseDone =>
        LET raw == Tokenize(script).commands IN
        /\ config.steps_to_execute = ExpectedSteps(raw)
        /\ FirstStepViolation(raw) <= Len(raw) => config.invalid

\* a step before the violation is kept and a well-formed step command after
\* it is left out
C5_Witness ==
    /\ FirstParseDone
    /\ config.invalid
    /\ Len(config.steps_to_execute) >= 1
    /\ LET raw == Tokenize(script).commands IN
       \E j \in 1..Len(raw) :
           /\ j > FirstStepViolation(raw)
           /\ IsStepCommand(raw[j])
           /\ ~StepViolation(raw[j])

\* C6: a grammar violation in a configuration command sets config.invalid,
\* leaves the fields of that command as they were and does not stop the
\* pass: every field holds what the well-formed commands of its keyword set
\* (the last one wins, SUB and CFG_PUB_EACH accumulate), and the step pass
\* has run.
C6_ConfigPassContinues ==
    FirstParseDone =>
        LET raw == Tokenize(script).commands IN
        /\ (\E i \in 1..Len(raw) : ConfigViolation(raw[i])) => config.invalid
        /\ config.client_id = LastArg(raw, K_CFG_CLIENT_ID, 1, <<>>)
        /\ config.clean_session = LastYes(raw, K_CFG_CLEAN_SESSION, TRUE)
        /\ config.keepalive_s = LastInt(raw, K_CFG_KEEPALIVE, 1, 60)
        /\ config.username = LastArg(raw, K_CFG_USER, 1, <<>>)
        /\ config.password = LastArg(raw, K_CFG_USER, 2, <<>>)
        /\ config.tls_cert = LastArg(raw, K_CFG_TLS_CERT, 1, <<>>)
        /\ config.tls_key = LastArg(raw, K_CFG_TLS_CERT, 2, <<>>)
        /\ config.use_tls = LastYes(raw, K_CFG_USE_TLS, FALSE)
        /\ config.mqtt_host = LastArg(raw, K_CONNECT, 1, <<>>)
        /\ config.mqtt_port = LastInt(raw, K_CONNECT, 2, 1883)
        /\ LET subs == WellFormed(raw, K_SUB) IN
           config.subscriptions =
               [k \in 1..Len(subs) |-> ConfigSubscription(subs[k].args)]
        /\ LET each == WellFormed(raw, K_CFG_PUB_EACH) IN
           config.pub_each =
               [k \in 1..Len(each) |-> ConfigPublishEach(each[k].args)]
        /\ Len(config.steps_to_execute) =
               Len(SelectSeq(SubSeq(raw, 1, FirstStepViolation(raw) - 1),
                             IsStepCommand))

\* a violation is followed by a well-formed configuration command that has
\* been applied, and by a step that has been compiled
C6_Witness ==
    /\ FirstParseDone
    /\ config.invalid
    /\ Len(config.steps_to_execute) >= 1
    /\ Len(config.mqtt_host) > 0
    /\ LET raw == Tokenize(script).commands IN
       \E i \in 1..Len(raw) :
           /\ ConfigViolation(raw[i])
           /\ \E j \in (i + 1)..Len(raw) :
                  raw[j].cmd = K_CONNECT /\ ConfigWellFormed(raw[j])
           /\ \E j \in (i + 1)..Len(raw) :
                  IsStepCommand(raw[j]) /\ ~StepViolation(raw[j])

\* C8: parsing is idempotent: a second call of cmdscript_parse on the same
\* text returns, and leaves a configuration equal field by field to the one
\* the first call left.
C8_Idempotent ==
    parses = 2 =>
        /\ pc = "check"
        /\ config = cmdscript_parse(InitialConfig, script).cfg

(***************************************************************************)
(* Claims on the interpreter (specification Spec)                          *)
(***************************************************************************)
\* the step is one iteration of the loop with the client connected
ConnectedTick == ticks' = ticks + 1 /\ is_connected /\ pc' = "sleep"

\* the step cursor is at a Delay step
AtDelay ==
    /\ step < Len(config.steps_to_execute)
    /\ config.steps_to_execute[step + 1].cmd \in DelayKeywords

\* the duration of a Delay step in milliseconds: n seconds for DELAY,
\* n / 1000 seconds for DELAY_MS, n * 3600 seconds for DELAY_H
Duration(c) ==
    CASE c.cmd = K_DELAY -> c.args[1].n * 1000
      [] c.cmd = K_DELAY_MS -> c.args[1].n
      [] c.cmd = K_DELAY_H -> c.args[1].n * 3600 * 1000

\* the time the Delay step under the cursor started, read in a tick
Started == IF t_wait_start = None THEN now ELSE t_wait_start

StepCalls(cs) == SelectSeq(cs, LAMBDA c : c.by = "step")

\* C7: a Delay step of DELAY n lasts n seconds, of DELAY_MS n lasts n / 1000
\* seconds and of DELAY_H n lasts n * 3600 seconds: a connected tick
\* completes the step if and only if the time elapsed since the step started
\* is at least that duration.
C7_DelayDuration ==
    [][(ConnectedTick /\ AtDelay) =>
           (step' = step + 1
              <=> now - Started >= Duration(config.steps_to_execute[step + 1]))
      ]_vars

\* a DELAY_MS step has completed in a tick later than the one it started in
C7_Witness ==
    /\ pc = "sleep"
    /\ step >= 1
    /\ config.steps_to_execute[step].cmd = K_DELAY_MS
    /\ t_wait_start = None
    /\ now > StartTime
    /\ calls = <<>>

\* C9: in every connected tick every periodic entry whose interval has
\* elapsed since its own time_last_pub publishes in that tick and takes the
\* tick's time, wherever the step cursor stands and whatever the other
\* entries do.
C9_PeriodicIndependent ==
    [][ConnectedTick =>
           \A i \in 1..Len(config.pub_each) :
               now - config.pub_each[i].time_last_pub
                   >= config.pub_each[i].each * 1000
               => /\ \E k \in 1..Len(calls') :
                         /\ calls'[k].op = "publish"
                         /\ calls'[k].by = "each"
                         /\ calls'[k].idx = i
                  /\ config'.pub_each[i].time_last_pub = now
      ]_vars

\* the cursor is blocked on a Delay step in a tick in which one entry has
\* published and another has not
C9_Witness ==
    /\ pc = "sleep"
    /\ t_wait_start # None
    /\ t_wait_start < now
    /\ \E i, j \in 1..Len(config.pub_each) :
           /\ config.pub_each[i].time_last_pub = now
           /\ config.pub_each[j].time_last_pub < now
           /\ \E k \in 1..Len(calls) : calls[k].by = "each" /\ calls[k].idx = i

\* C10: a Delay step blocks the cursor.  t_wait_start is set once, to the
\* time of the tick that first looks at the step; until a connected tick
\* with now - t_wait_start >= duration the index and t_wait_start stay as
\* they are and no step is executed; the completing tick clears t_wait_start
\* and advances the index by one.
C10_DelayBlocks ==
    [][/\ (ConnectedTick /\ AtDelay) =>
              IF now - Started >= Duration(config.steps_to_execute[step + 1])
              THEN t_wait_start' = None /\ step' = step + 1
              ELSE /\ t_wait_start' = Started
                   /\ step' = step
                   /\ StepCalls(calls') = <<>>
       /\ (t_wait_start # None /\ ~ConnectedTick) =>
              /\ t_wait_start' = t_wait_start
              /\ step' = step
              /\ StepCalls(calls') = StepCalls(calls)
      ]_vars

\* a tick later than the one that started the Delay step has left the cursor
\* on it, with a step after it
C10_Witness ==
    /\ pc = "sleep"
    /\ t_wait_start # None
    /\ t_wait_start < now
    /\ step + 1 < Len(config.steps_to_execute)
    /\ StepCalls(calls) = <<>>

\* the step before the cursor is a DISCONNECT step: the cursor moves past a
\* step only in the tick that executes it
DisconnectExecuted ==
    /\ step >= 1
    /\ config.steps_to_execute[step].cmd = K_DISCONNECT

EachTimes(cfg) == [i \in 1..Len(cfg.pub_each) |-> cfg.pub_each[i].time_last_pub]

\* C11: the tick that executes a DISCONNECT step requests the broker
\* disconnect, sets app_exit and advances the index; after that tick no tick
\* runs any more: no step that follows is executed and no periodic publish
\* fires.
C11_DisconnectEnds ==
    [][/\ (ConnectedTick /\ step < Len(config.steps_to_execute)
             /\ config.steps_to_execute[step + 1].cmd = K_DISCONNECT) =>
              /\ app_exit'
              /\ step' = step + 1
              /\ \E k \in 1..Len(calls') : calls'[k].op = "disconnect"
              /\ client_state' = "disconnecting"
       /\ DisconnectExecuted =>
              /\ app_exit
              /\ ticks' = ticks
              /\ calls' = calls
              /\ step' = step
              /\ EachTimes(config') = EachTimes(config)
      ]_vars

\* the run has ended after a DISCONNECT step that a step follows, with a
\* periodic entry whose interval has elapsed since
C11_Witness ==
    /\ pc = "done"
    /\ DisconnectExecuted
    /\ step < Len(config.steps_to_execute)
    /\ \E i \in 1..Len(config.pub_each) :
           now - config.pub_each[i].time_last_pub
               >= config.pub_each[i].each * 1000

NoDisconnectStep ==
    \A i \in 1..Len(config.steps_to_execute) :
        config.steps_to_execute[i].cmd # K_DISCONNECT

\* C12: in a run whose step list has no DISCONNECT step, once the index
\* equals the length of the step list and no delay is pending, the loop
\* exits and the interpreter disconnects and returns, unless a termination
\* signal arrives (app_exit is then set by the signal alone).
C12_ExhaustedTerminates ==
    []((/\ pc = "loop"
        /\ step = Len(config.steps_to_execute)
        /\ t_wait_start = None
        /\ NoDisconnectStep)
       => <>(pc = "done" \/ app_exit))

\* C13: a termination signal sets app_exit and is observed within one tick:
\* once app_exit is set no iteration of the loop begins (no sweep, no step
\* evaluation; the iteration in progress only finishes its sleep), the main
\* thread leaves the loop with a disconnect request to the client, and it
\* returns only after the network thread has ended.
C13_SignalObserved ==
    [][/\ (~app_exit /\ pc \in {"loop", "sleep"} /\ app_exit' /\ ticks' = ticks)
              => /\ pc' = pc
                 /\ step' = step
                 /\ calls' = calls
                 /\ config' = config
       /\ app_exit =>
              /\ app_exit'
              /\ ticks' = ticks
              /\ calls' = calls
              /\ step' = step
              /\ t_wait_start' = t_wait_start
              /\ config' = config
       /\ (app_exit /\ pc = "sleep") => pc' \in {"sleep", "loop"}
       /\ (app_exit /\ pc = "loop") =>
              \/ pc' = "loop"
              \/ pc' = "join" /\ client_state' \in {"disconnecting", "closed"}
       /\ (pc = "join" /\ pc' # "join") =>
              pc' = "done" /\ net = "ended" /\ rc' = RC_OK
      ]_vars

\* a run that a signal has ended with an iteration in progress: the index is
\* before a step that was never executed
C13_Witness ==
    /\ pc = "done"
    /\ app_exit
    /\ ~DisconnectExecuted
    /\ ticks >= 1
    /\ ticks < MaxTicks
    /\ step < Len(config.steps_to_execute)
    /\ client_state = "closed"

\* C14: time_last_pub of every periodic entry is unset (None) when the
\* interpreter starts; the first sweep after the connection sets it to
\* time_mqtt_connected, and an entry publishes only in a sweep with
\* now - time_last_pub >= each: while the connection has never been lost, no
\* entry publishes earlier than each seconds after time_mqtt_connected, and
\* every publish sets time_last_pub to the time of the sweep.
C14_FirstPublishAfterInterval ==
    [][/\ pc = "interp" =>
              \A i \in 1..Len(config.pub_each) :
                  config.pub_each[i].time_last_pub = None
       /\ (ConnectedTick /\ drops = 0) =>
              \A k \in 1..Len(calls') :
                  calls'[k].by = "each" =>
                      /\ now - time_mqtt_connected
                             >= config.pub_each[calls'[k].idx].each * 1000
                      /\ config'.pub_each[calls'[k].idx].time_last_pub = now
      ]_vars

\* cmdscript_interpreter has started its loop
InterpreterRuns == pc \in {"loop", "sleep", "join", "done", "crashed"}

\* C15: the sweep and the steps run only while the client reports itself
\* connected: an iteration of the loop with the client not connected makes
\* no publish and no disconnect request and leaves the index, t_wait_start
\* and every time_last_pub as they are; the index, t_wait_start and the
\* time_last_pub change in no other step than an iteration with the client
\* connected.
C15_OnlyWhileConnected ==
    [][/\ (ticks' = ticks + 1 /\ client_state # "connected") =>
              /\ calls' = <<>>
              /\ step' = step
              /\ t_wait_start' = t_wait_start
              /\ EachTimes(config') = EachTimes(config)
              /\ client_state' = client_state
              /\ app_exit' = app_exit
       /\ (InterpreterRuns /\
           (\/ step' # step
            \/ t_wait_start' # t_wait_start
            \/ EachTimes(config') # EachTimes(config)
            \/ calls' # calls /\ calls' # <<>>)) =>
              ticks' = ticks + 1 /\ client_state = "connected"
      ]_vars

\* an iteration has run with the connection lost, a Delay step pending and a
\* periodic entry due
C15_Witness ==
    /\ pc = "sleep"
    /\ client_state = "lost"
    /\ drops = 1
    /\ calls = <<>>
    /\ t_wait_start # None
    /\ \E i \in 1..Len(config.pub_each) :
           now - config.pub_each[i].time_last_pub
               >= config.pub_each[i].each * 1000

\* the step under the cursor completes in an iteration at the clock reading
\* now: a PUB or DISCONNECT step at once, a Delay step when its duration has
\* elapsed
Completes(c) ==
    \/ c.cmd \in {K_PUB, K_DISCONNECT}
    \/ c.cmd \in DelayKeywords /\ now - Started >= Duration(c)

\* C16: 0 <= step <= Len(steps_to_execute) in every state; the index never
\* decreases and changes only by +1, only in an iteration with the client
\* connected in which the step at the index completes, and never after a
\* DISCONNECT step has been executed.
C16_IndexMonotonic ==
    [][/\ 0 <= step /\ step <= Len(config.steps_to_execute)
       /\ 0 <= step' /\ step' <= Len(config'.steps_to_execute)
       /\ step' # step =>
              /\ step' = step + 1
              /\ ticks' = ticks + 1
              /\ client_state = "connected"
              /\ step < Len(config.steps_to_execute)
              /\ Completes(config.steps_to_execute[step + 1])
              /\ ~DisconnectExecuted
       /\ (ticks' = ticks + 1 /\ client_state = "connected"
             /\ step < Len(config.steps_to_execute)
             /\ Completes(config.steps_to_execute[step + 1])) =>
              step' = step + 1
      ]_vars

\* an iteration with the client connected has run with the index at the end
\* of the step list: it made a periodic publish and executed no step
C16_Witness ==
    /\ pc = "sleep"
    /\ step = Len(config.steps_to_execute)
    /\ step >= 1
    /\ config.steps_to_execute[step].cmd = K_PUB
    /\ calls # <<>>
    /\ StepCalls(calls) = <<>>

\* C17: t_wait_start is set only while the cursor is within the step list and
\* at a Delay step; once set it keeps its value until it is cleared, and it is
\* cleared in exactly the iteration in which that Delay step completes and the
\* index advances.
C17_PendingDelay ==
    [][/\ t_wait_start # None => AtDelay
       /\ (t_wait_start # None)' => AtDelay'
       /\ (t_wait_start # None /\ t_wait_start' # None) =>
              t_wait_start' = t_wait_start /\ step' = step
       /\ (t_wait_start # None /\ t_wait_start' = None) =>
              /\ ticks' = ticks + 1
              /\ client_state = "connected"
              /\ Completes(config.steps_to_execute[step + 1])
              /\ step' = step + 1
       /\ (ticks' = ticks + 1 /\ client_state = "connected" /\ AtDelay
             /\ Completes(config.steps_to_execute[step + 1])) =>
              t_wait_start' = None /\ step' = step + 1
       /\ (AtDelay /\ step' = step + 1) => t_wait_start' = None
      ]_vars

\* a Delay step of positive duration, in progress over an earlier iteration,
\* has completed: the index is past it and t_wait_start is cleared
C17_Witness ==
    /\ pc = "sleep"
    /\ step >= 1
    /\ config.steps_to_execute[step].cmd \in DelayKeywords
    /\ Duration(config.steps_to_execute[step]) > 0
    /\ t_wait_start = None

(***************************************************************************)
(* Claims on the frame of the passes and of the interpreter                *)
(***************************************************************************)
\* C18: the raw command list is immutable once the tokenizer has made it:
\* after the configuration pass and the step pass, config.commands equals the
\* list the tokenizer produced, keyword by keyword and argument by argument.
C18_RawCommandsImmutable ==
    FirstParseDone => config.commands = Tokenize(script).commands

\* the configuration with the live field time_last_pub of every periodic
\* publish entry left out
Parsed(cfg) ==
    [cfg EXCEPT !.pub_each =
        [i \in 1..Len(cfg.pub_each) |->
            [cfg.pub_each[i] EXCEPT !.time_last_pub = None]]]

\* the interpreter has been entered and has not yet returned
InExecutor == pc \in {"interp", "loop", "sleep", "join"}

\* C19: from the entry of the interpreter to its termination no field of the
\* configuration left by the parse changes except time_last_pub of the
\* periodic publish entries: host, port, client identifier, clean session,
\* keepalive, credentials, TLS settings, subscriptions, the interval, qos,
\* topic and message of every periodic publish, the step list and the invalid
\* flag keep their parsed values.
C19_ConfigFrame ==
    [][InExecutor => Parsed(config') = Parsed(config)]_vars

(***************************************************************************)
(* Claims on the reception of messages (specification SpecMsg)             *)
(***************************************************************************)
\* the subscriptions whose topic is the topic given, in their order
RECURSIVE ExactSubs(_, _)
ExactSubs(subs, topic) ==
    IF Len(subs) = 0 THEN <<>>
    ELSE (IF Head(subs).topic = topic THEN <<Head(subs)>> ELSE <<>>)
         \o ExactSubs(Tail(subs), topic)

\* the step is a message-received notification
Notified == received' # received

\* C20: on each message-received notification one line for the message is
\* appended to the log file of every subscription whose topic equals the topic
\* of the message, and no other line is appended: none for a subscription
\* with another topic, a wildcard filter that the broker matched included;
\* the notification leaves the state of the interpreter (step index,
\* t_wait_start, time_mqtt_connected, time_last_pub, app_exit,
\* mqtt_connection_lost, the connection state) unchanged.
C20_MessageLogged ==
    [][Notified =>
         LET m == received'[Len(received')]
             to == ExactSubs(config.subscriptions, m.topic)
             new == SubSeq(logs', Len(logs) + 1, Len(logs'))
         IN /\ Len(logs') = Len(logs) + Len(to)
            /\ SubSeq(logs', 1, Len(logs)) = logs
            /\ \A k \in 1..Len(to) :
                  /\ new[k].file = to[k].logfile
                  /\ SubSeq(new[k].line, 1, Len(m.topic) + 4)
                        = MsgLine(m.topic, <<>>)
            /\ UNCHANGED <<step, t_wait_start, time_mqtt_connected, config,
                           app_exit, mqtt_connection_lost, client_state, pc,
                           now>>
      ]_vars

(***************************************************************************)
(* Claims on the periodic publish entries and on the connection callbacks  *)
(***************************************************************************)
\* C21: every periodic publish entry of a configuration that the parse leaves
\* valid (invalid = FALSE) has an interval (each) that is a positive integer.
C21_IntervalPositive ==
    (FirstParseDone /\ ~config.invalid) =>
        \A i \in 1..Len(config.pub_each) : config.pub_each[i].each > 0

\* the step is a connect notification: the client becomes connected
ConnectNotified == client_state # "connected" /\ client_state' = "connected"

\* C22: on every connect notification, the first connect and every reconnect
\* alike, the handler calls subscribe(topic, qos) for every configured
\* subscription in configuration order, clears mqtt_connection_lost and
\* records the connection time; whenever the client is connected, the last
\* subscribe calls made are those of all the configured subscriptions.
C22_SubscribeOnConnect ==
    [][/\ ConnectNotified =>
            /\ Len(subscribes') = Len(subscribes) + Len(config.subscriptions)
            /\ SubSeq(subscribes', 1, Len(subscribes)) = subscribes
            /\ \A k \in 1..Len(config.subscriptions) :
                  /\ subscribes'[Len(subscribes) + k].topic
                        = config.subscriptions[k].topic
                  /\ subscribes'[Len(subscribes) + k].qos
                        = config.subscriptions[k].qos
            /\ mqtt_connection_lost' = FALSE
            /\ time_mqtt_connected' = now
       /\ (client_state = "connected")' =>
            (/\ Len(subscribes) >= Len(config.subscriptions)
             /\ SubSeq(subscribes,
                       Len(subscribes) - Len(config.subscriptions) + 1,
                       Len(subscribes))
                   = SubscribeCalls(config.subscriptions))'
      ]_vars

\* the client is connected again after a loss of the connection, with two
\* subscriptions configured and subscribed a second time
C22_Witness ==
    /\ client_state = "connected"
    /\ drops = 1
    /\ Len(config.subscriptions) = 2
    /\ Len(subscribes) = 4
    /\ subscribes[3].topic = <<"t">> /\ subscribes[3].qos = 1
    /\ subscribes[4].topic = <<"u">> /\ subscribes[4].qos = 0

\* the step is a disconnect notification: the connection is lost, or it is
\* closed after mqtt_client.disconnect()
DisconnectNotified ==
    \/ drops' # drops
    \/ client_state = "disconnecting" /\ client_state' = "closed"

\* C23: every disconnect notification, for a closed connection and for a lost
\* one, appends one disconnection line to the log file of every configured
\* subscription.
C23_DisconnectLogged ==
    [][DisconnectNotified =>
         /\ Len(logs') = Len(logs) + Len(config.subscriptions)
         /\ SubSeq(logs', 1, Len(logs)) = logs
         /\ \A k \in 1..Len(config.subscriptions) :
               logs'[Len(logs) + k].file = config.subscriptions[k].logfile
      ]_vars

\* the lines of the log file f, in the order they were appended
FileLog(f) == SelectSeq(logs, LAMBDA e : e.file = f)

LogFiles ==
    {config.subscriptions[i].logfile : i \in 1..Len(config.subscriptions)}

LineConnected == " -- MQTT Connected --"
LineRestored == " -- MQTT Connected (Communication Restored) --"
LineLost == " -- MQTT Communication Lost --"

IsConnectLine(e) == e.line \in {LineConnected, LineRestored}

Unshared(f) ==
    Cardinality({i \in 1..Len(config.subscriptions) :
                    config.subscriptions[i].logfile = f}) = 1

RECURSIVE PubSteps(_, _)
PubSteps(steps, k) ==
    IF k = 0 THEN <<>>
    ELSE PubSteps(steps, k - 1)
         \o (IF steps[k].cmd = K_PUB THEN <<k - 1>> ELSE <<>>)

\* the publish calls made for steps so far are those of the PUB steps the
\* cursor has passed: one call each, in the order of the step list, with the
\* qos, topic and message of the step
PassedOnce(pubs, steps, k) ==
    LET ps == PubSteps(steps, k) IN
    /\ Len(pubs) = Len(ps)
    /\ \A j \in 1..Len(ps) :
          /\ pubs[j].idx = ps[j]
          /\ pubs[j].qos = steps[ps[j] + 1].args[1].n
          /\ pubs[j].topic = steps[ps[j] + 1].args[2].s
          /\ pubs[j].msg = steps[ps[j] + 1].args[3].s

\* C25: across every interleaving of iterations with connect and disconnect
\* notifications, every PUB step the cursor has passed has caused exactly one
\* publish call and no other step has caused any, the calls are in the order
\* of the step list, and no step is executed again after a disconnect and a
\* reconnect; a PUB step completes in the iteration that evaluates it, and at
\* most one step completes in an iteration.
C25_PublishOnce ==
    [][/\ PassedOnce(published, config.steps_to_execute, step)
       /\ PassedOnce(published', config'.steps_to_execute, step')
       /\ step' \in {step, step + 1}
       /\ Len(published') <= Len(published) + 1
       /\ (/\ ticks' = ticks + 1
           /\ client_state = "connected"
           /\ step < Len(config.steps_to_execute)
           /\ config.steps_to_execute[step + 1].cmd = K_PUB) =>
              /\ step' = step + 1
              /\ Len(published') = Len(published) + 1
      ]_vars

\* an iteration has run with the connection lost after the first PUB step
\* was published and with a second PUB step under the cursor: it published
\* nothing and left the cursor in place
C25_Witness ==
    /\ pc = "sleep"
    /\ client_state = "lost"
    /\ Len(subscribes) = Len(config.subscriptions)
    /\ Len(config.subscriptions) > 0
    /\ step = 1
    /\ Len(config.steps_to_execute) = 2
    /\ config.steps_to_execute[1].cmd = K_PUB
    /\ config.steps_to_execute[2].cmd = K_PUB
    /\ Len(published) = 1
    /\ calls = <<>>

(***************************************************************************)
(* Claims on the two threads (specification SpecRace)                      *)
(***************************************************************************)
\* the step issues a publish, for a periodic entry or for a step
PublishIssued ==
    /\ calls' # calls
    /\ \E i \in 1..Len(calls') : calls'[i].op = "publish"

\* the most recent notification is a connect and its handler has completed:
\* the client is connected, the network thread is outside the callbacks,
\* mqtt_connection_lost is clear, time_mqtt_connected is set and the last
\* subscribe calls are those of all the configured subscriptions
ConnectCompleted ==
    /\ client_state = "connected"
    /\ net = "run"
    /\ ~mqtt_connection_lost
    /\ time_mqtt_connected # None
    /\ Len(subscribes) >= Len(config.subscriptions)
    /\ SubSeq(subscribes, Len(subscribes) - Len(config.subscriptions) + 1,
              Len(subscribes)) = SubscribeCalls(config.subscriptions)

\* C26: under every interleaving of the interpreter thread with the network
\* thread, whenever the interpreter issues a publish, periodic or of a step,
\* the most recent notification delivered is a connect whose handler has
\* completed: no publish is issued between a disconnect notification and the
\* completion of the next connect handler, nor while a handler is part-way
\* through updating the connection state.
C26_PublishConsistent ==
    [][PublishIssued => ConnectCompleted]_vars

====
